---- MODULE Spec2Model ----
(***************************************************************************)
(* A model of make_compostable.py: the namespace resolver, the candidate   *)
(* discoverer and the three-file conversion (implementation file, call     *)
(* sites, header).                                                         *)
(*                                                                         *)
(* Text.  A file's content is a sequence of chunks.  A chunk is a string   *)
(* standing for a run of characters of one class: a run of \w characters   *)
(* (WordChunks; an identifier is one or more adjacent word chunks, so      *)
(* <<"My","Foo">> is the identifier MyFoo and <<"Lifecycle","Node">> is    *)
(* LifecycleNode), one white-space character (SpaceChunks), or punctuation *)
(* / an opaque literal.  Every regular expression of the source is         *)
(* translated to an operator over chunk sequences that matches what the    *)
(* regular expression matches on the text the chunks spell.                *)
(***************************************************************************)
EXTENDS Integers, Sequences, FiniteSets, TLC

(***************************************************************************)
(* Bounds of the model.                                                    *)
(***************************************************************************)
MaxLines == 4

MaxDefs == 2

MaxFiles == 2

MaxCands == 2

MaxRuns == 2

(***************************************************************************)
(* Chunks and character classes.                                           *)
(***************************************************************************)
WordChunks ==
    { "Foo", "Bar", "My", "Node", "Lifecycle", "Options", "namespace", "a", "b",
      "demo", "std", "make_shared", "rclcpp", "const", "options", "int", "x",
      "explicit", "public", "void", "f", "auto", "n", "class", "42",
      "RCLCPP_COMPONENTS_REGISTER_NODE" }

SpaceChunks == { " ", "\n" }

IsWord(c) == c \in WordChunks

IsSpace(c) == c \in SpaceChunks

\* The chunk at position p of s; "" (no character) outside s.
At(s, p) == IF p \in 1..Len(s) THEN s[p] ELSE ""

Min(x, y) == IF x < y THEN x ELSE y

Max(x, y) == IF x > y THEN x ELSE y

\* The literal lit occurs in s starting at position p.
HasAt(s, p, lit) ==
    /\ p >= 1
    /\ p + Len(lit) - 1 <= Len(s)
    /\ \A k \in 1..Len(lit) : s[p + k - 1] = lit[k]

\* Python's `lit in s`.
Contains(s, lit) == \E p \in 1..(Len(s) + 1) : HasAt(s, p, lit)

\* \s* from position p: the position of the first chunk that is not white space.
RECURSIVE SkipSpaces(_, _)
SkipSpaces(s, p) == IF IsSpace(At(s, p)) THEN SkipSpaces(s, p + 1) ELSE p

\* \w+ from position p: the position after the maximal run of word chunks.
RECURSIVE SkipWord(_, _)
SkipWord(s, p) == IF IsWord(At(s, p)) THEN SkipWord(s, p + 1) ELSE p

\* The first position >= p holding a chunk of stops, 0 when there is none.
RECURSIVE FirstOf(_, _, _)
FirstOf(s, p, stops) ==
    IF p > Len(s) THEN 0
    ELSE IF s[p] \in stops THEN p
    ELSE FirstOf(s, p + 1, stops)

\* str.count(c).
RECURSIVE Count(_, _)
Count(s, c) ==
    IF s = <<>> THEN 0
    ELSE (IF Head(s) = c THEN 1 ELSE 0) + Count(Tail(s), c)

\* str.splitlines(): the lines of s without their line breaks.
RECURSIVE SplitLines(_)
SplitLines(s) ==
    IF s = <<>> THEN <<>>
    ELSE LET nl == FirstOf(s, 1, {"\n"})
         IN  IF nl = 0 THEN <<s>>
             ELSE <<SubSeq(s, 1, nl - 1)>> \o SplitLines(SubSeq(s, nl + 1, Len(s)))

\* str.strip().
RECURSIVE Strip(_)
Strip(s) ==
    IF s = <<>> THEN s
    ELSE IF IsSpace(s[1]) THEN Strip(Tail(s))
    ELSE IF IsSpace(s[Len(s)]) THEN Strip(SubSeq(s, 1, Len(s) - 1))
    ELSE s

\* sep.join(parts).
RECURSIVE Join(_, _)
Join(parts, sep) ==
    IF parts = <<>> THEN <<>>
    ELSE IF Len(parts) = 1 THEN parts[1]
    ELSE parts[1] \o sep \o Join(Tail(parts), sep)

\* Python's seq[:n], n of either sign.
PySliceTo(s, n) ==
    IF n >= 0 THEN SubSeq(s, 1, Min(n, Len(s)))
    ELSE SubSeq(s, 1, Max(0, Len(s) + n))

(***************************************************************************)
(* find_enclosing_namespace.                                               *)
(***************************************************************************)
\* re.search(rf'\b{class_name}::{class_name}\s*\(', line)
IsConstructorLine(line, cls) ==
    \E p \in 1..Len(line) :
        /\ ~IsWord(At(line, p - 1))
        /\ HasAt(line, p, cls \o <<"::">> \o cls)
        /\ At(line, SkipSpaces(line, p + 2 * Len(cls) + 1)) = "("

\* The index (from 1) of the first constructor line, 0 for Python's None.
ConstructorLineNum(lns, cls) ==
    IF \E k \in 1..Len(lns) : IsConstructorLine(lns[k], cls)
    THEN CHOOSE k \in 1..Len(lns) :
            /\ IsConstructorLine(lns[k], cls)
            /\ \A m \in 1..(k - 1) : ~IsConstructorLine(lns[m], cls)
    ELSE 0

\* re.match(r'namespace\s+(\w+)', line) on the stripped line.
NsMatch(line) ==
    /\ At(line, 1) = "namespace"
    /\ IsSpace(At(line, 2))
    /\ IsWord(At(line, SkipSpaces(line, 2)))

\* ns_match.group(1)
NsMatchGroup1(line) ==
    LET p == SkipSpaces(line, 2) IN SubSeq(line, p, SkipWord(line, p) - 1)

BraceDelta(line) == Count(line, "{") - Count(line, "}")

\* The first line j in i..last holding a '{', 0 when there is none.
FirstBraceLine(lns, i, last) ==
    IF \E j \in i..last : Count(lns[j], "{") > 0
    THEN CHOOSE j \in i..last :
            /\ Count(lns[j], "{") > 0
            /\ \A m \in i..(j - 1) : Count(lns[m], "{") = 0
    ELSE 0

\* One iteration of the walk, on line i, over the scan state
\* st = [namespace_stack, brace_depth, depth_to_ns].
ScanLine(st, lns, i, last) ==
    LET line == Strip(lns[i]) IN
    IF NsMatch(line)
    THEN LET pending == NsMatchGroup1(line)
             j == FirstBraceLine(lns, i, last)
         IN  IF j = 0 THEN st
             ELSE [ namespace_stack |-> Append(st.namespace_stack, pending),
                    brace_depth     |-> st.brace_depth + BraceDelta(lns[j]),
                    depth_to_ns     |->
                        (st.brace_depth :> pending) @@ st.depth_to_ns ]
    ELSE LET d == st.brace_depth + BraceDelta(line)
         IN  [ namespace_stack |->
                   IF d < Len(st.namespace_stack)
                   THEN PySliceTo(st.namespace_stack, d)
                   ELSE st.namespace_stack,
               brace_depth     |-> d,
               depth_to_ns     |-> st.depth_to_ns ]

ScanInit ==
    [ namespace_stack |-> <<>>, brace_depth |-> 0, depth_to_ns |-> <<>> ]

\* The scan state after lines 1..k.
RECURSIVE ScanPrefix(_, _, _)
ScanPrefix(lns, k, last) ==
    IF k = 0 THEN ScanInit
    ELSE ScanLine(ScanPrefix(lns, k - 1, last), lns, k, last)

\* "::".join(namespace_stack) + ("::" if namespace_stack else "")
NamespacePrefix(stack) ==
    Join(stack, <<"::">>) \o (IF stack # <<>> THEN <<"::">> ELSE <<>>)

find_enclosing_namespace(text, cls) ==
    LET lns  == SplitLines(text)
        last == ConstructorLineNum(lns, cls)
    IN  IF last = 0 THEN <<>>
        ELSE NamespacePrefix(ScanPrefix(lns, last, last).namespace_stack)

(***************************************************************************)
(* find_ros2_node_constructors.                                            *)
(***************************************************************************)
NoMatch == [ ok |-> FALSE, end |-> 0, groups |-> <<>> ]

\* A backreference \k at position p: fails when group k did not take part.
Backref(text, p, groups, k) ==
    k \in DOMAIN groups /\ HasAt(text, p, groups[k])

\* The group number the delegating alternative refers back to (line 9: \1).
DelegateBackref == 1

\* (\w+)::\g\s*\([^)]*\)\s*:\s*  matched at p with the class captured as group
\* g: the position after it, 0 when it does not match.
CtorHeadEnd(text, p, g) ==
    LET w == SkipWord(text, p)
        cls == SubSeq(text, p, w - 1)
        q == SkipSpaces(text, w + 1 + Len(cls))
        r == FirstOf(text, q + 1, {")"})
        t == SkipSpaces(text, r + 1)
    IN  IF /\ w > p
           /\ At(text, w) = "::"
           /\ Backref(text, w + 1, g :> cls, g)
           /\ At(text, q) = "("
           /\ r # 0
           /\ At(text, t) = ":"
        THEN SkipSpaces(text, t + 1)
        ELSE 0

\* constructor_pattern (lines 6-10) matched at position p; the delegating
\* alternative refers back to group deleg.
ConstructorPatternAt(text, p, deleg) ==
    LET cls == SubSeq(text, p, SkipWord(text, p) - 1)
        u1 == CtorHeadEnd(text, p, 1)
        v1 == IF At(text, u1) = "public" /\ IsSpace(At(text, u1 + 1))
              THEN SkipSpaces(text, u1 + 1) ELSE u1
        u2 == CtorHeadEnd(text, p, 2)
    IN  IF u1 # 0 /\ At(text, v1) = "Node" /\ ~IsWord(At(text, v1 + 1))
        THEN [ ok |-> TRUE, end |-> v1 + 1, groups |-> 1 :> cls ]
        ELSE IF /\ u1 # 0
                /\ HasAt(text, v1, << "Lifecycle", "Node" >>)
                /\ ~IsWord(At(text, v1 + 2))
        THEN [ ok |-> TRUE, end |-> v1 + 2, groups |-> 1 :> cls ]
        ELSE IF /\ u2 # 0
                /\ Backref(text, u2, 2 :> cls, deleg)
                /\ At(text, SkipSpaces(text, u2 + Len(cls))) = "("
        THEN [ ok |-> TRUE, end |-> SkipSpaces(text, u2 + Len(cls)) + 1,
               groups |-> 2 :> cls ]
        ELSE NoMatch

\* constructor_pattern.finditer(content), as the class names
\* match.group(1) or match.group(2) of the matches in order.
RECURSIVE FindIterClasses(_, _, _)
FindIterClasses(text, p, deleg) ==
    IF p > Len(text) THEN <<>>
    ELSE LET m == ConstructorPatternAt(text, p, deleg)
         IN  IF m.ok
             THEN << IF 1 \in DOMAIN m.groups THEN m.groups[1] ELSE m.groups[2] >>
                      \o FindIterClasses(text, m.end, deleg)
             ELSE FindIterClasses(text, p + 1, deleg)

(***************************************************************************)
(* update_main_constructors.                                               *)
(***************************************************************************)
\* [\w:]* from position p: the position after the maximal run.
RECURSIVE SkipWordColon(_, _)
SkipWordColon(text, p) ==
    IF IsWord(At(text, p)) \/ At(text, p) \in { "::", ":" }
    THEN SkipWordColon(text, p + 1) ELSE p

\* constructor_call_pattern (lines 91-93) matched at position p.
ConstructorCallAt(text, p, cls) ==
    LET e == SkipWordColon(text, p + 4)
        q == SkipSpaces(text, e + 1)
        r == SkipSpaces(text, q + 1)
    IN  IF /\ HasAt(text, p, << "std", "::", "make_shared", "<" >>)
           /\ e - Len(cls) >= p + 4
           /\ HasAt(text, e - Len(cls), cls)
           /\ At(text, e) = ">"
           /\ At(text, q) = "("
           /\ At(text, r) = ")"
        THEN [ ok |-> TRUE, end |-> r + 1, groups |-> 1 :> SubSeq(text, p + 4, e - 1) ]
        ELSE NoMatch

\* constructor_call_pattern.search(content)
ConstructorCallSearch(text, cls) ==
    \E p \in 1..Len(text) : ConstructorCallAt(text, p, cls).ok

OptionsValue == << "rclcpp", "::", "Node", "Options", "{", "}" >>

\* constructor_call_pattern.sub(r'std::make_shared<\1>(rclcpp::NodeOptions{})', content)
RECURSIVE ConstructorCallSub(_, _, _)
ConstructorCallSub(text, p, cls) ==
    IF p > Len(text) THEN <<>>
    ELSE LET m == ConstructorCallAt(text, p, cls)
         IN  IF m.ok
             THEN << "std", "::", "make_shared", "<" >> \o m.groups[1]
                      \o << ">", "(" >> \o OptionsValue \o << ")" >>
                      \o ConstructorCallSub(text, m.end, cls)
             ELSE << text[p] >> \o ConstructorCallSub(text, p + 1, cls)

(***************************************************************************)
(* update_node_constructor.                                                *)
(***************************************************************************)
\* Lines 115: f"{class_name}::" in content and "NodeOptions" in content
AlreadyUsesOptions(text, cls) ==
    Contains(text, cls \o <<"::">>) /\ Contains(text, << "Node", "Options" >>)

\* constructor_regex (lines 119-121) matched at position p: group 1 is the
\* signature, group 2 the initializer list up to the body's brace.
ConstructorRegexAt(text, p, cls) ==
    LET q == SkipSpaces(text, p + 2 * Len(cls) + 1)
        r == FirstOf(text, q + 1, {")"})
        t == SkipSpaces(text, r + 1)
        b == FirstOf(text, t + 1, {"{"})
        e == IF b = 0 THEN Len(text) + 1 ELSE b
    IN  IF /\ HasAt(text, p, cls \o <<"::">> \o cls)
           /\ At(text, q) = "("
           /\ r # 0
           /\ At(text, t) = ":"
           /\ t + 1 <= Len(text)
           /\ text[t + 1] # "{"
        THEN [ ok |-> TRUE, end |-> e,
               groups |-> (1 :> SubSeq(text, p, r)) @@ (2 :> SubSeq(text, r + 1, e - 1)) ]
        ELSE NoMatch

\* The start of the first match of constructor_regex from position p on, 0
\* for no match.
RECURSIVE ConstructorRegexFrom(_, _, _)
ConstructorRegexFrom(text, p, cls) ==
    IF p > Len(text) THEN 0
    ELSE IF ConstructorRegexAt(text, p, cls).ok THEN p
    ELSE ConstructorRegexFrom(text, p + 1, cls)

\* constructor_regex.search(content)
ConstructorRegexSearch(text, cls) == ConstructorRegexFrom(text, 1, cls)

\* Line 130: re.sub(r'\bNode\s*\(([^)]*)\)', r'Node(\1, options)', old_initializer)
RECURSIVE ForwardOptions(_, _)
ForwardOptions(init, p) ==
    IF p > Len(init) THEN <<>>
    ELSE LET q == SkipSpaces(init, p + 1)
             r == FirstOf(init, q + 1, {")"})
         IN  IF /\ init[p] = "Node"
                /\ ~IsWord(At(init, p - 1))
                /\ At(init, q) = "("
                /\ r # 0
             THEN << "Node", "(" >> \o SubSeq(init, q + 1, r - 1)
                      \o << ",", " ", "options", ")" >>
                      \o ForwardOptions(init, r + 1)
             ELSE << init[p] >> \o ForwardOptions(init, p + 1)

OptionsParameter == << "const", " " >> \o << "rclcpp", "::", "Node", "Options" >>
                        \o << " ", "&", " ", "options" >>

\* Line 128.
NewSignature(cls) == cls \o <<"::">> \o cls \o <<"(">> \o OptionsParameter \o <<")">>

\* Line 135.
RegisterMacro(prefix, cls) ==
    << "RCLCPP_COMPONENTS_REGISTER_NODE", "(" >> \o prefix \o cls \o << ")" >>

RegisterInclude == << "#include \"rclcpp_components/register_node_macro.hpp\"" >>

\* Lines 128-137: the content written for a file in which the constructor matches.
UpdatedContent(text, cls) ==
    LET p == ConstructorRegexSearch(text, cls)
        m == ConstructorRegexAt(text, p, cls)
        updated_initializer == ForwardOptions(m.groups[2], 1)
        updated_constructor == NewSignature(cls) \o updated_initializer
        updated_content == SubSeq(text, 1, p - 1) \o updated_constructor
                               \o SubSeq(text, m.end, Len(text))
        register_macro == RegisterMacro(find_enclosing_namespace(text, cls), cls)
    IN  IF ~Contains(updated_content, register_macro)
        THEN updated_content \o << "\n", "\n" >> \o RegisterInclude \o << "\n" >>
                 \o register_macro \o << "\n" >>
        ELSE updated_content

\* How update_node_constructor ends for a file (lines 109-126, 139).
NodeOutcome(file, cls) ==
    IF ~file.utf8 THEN "skip_non_utf8"
    ELSE IF AlreadyUsesOptions(file.text, cls) THEN "already"
    ELSE IF ConstructorRegexSearch(file.text, cls) = 0 THEN "ctor_not_found"
    ELSE "updated"

(***************************************************************************)
(* update_header_constructor_declaration.                                  *)
(***************************************************************************)
\* declaration_regex (line 172) matched at position p.
DeclarationRegexAt(text, p, cls) ==
    LET q == SkipSpaces(text, p + Len(cls))
        e == FirstOf(text, q + 1, { ";", "{" })
    IN  IF /\ ~IsWord(At(text, p - 1))
           /\ HasAt(text, p, cls)
           /\ At(text, q) = "("
           /\ e # 0
           /\ text[e] = ";"
           /\ e - 1 > q
           /\ text[e - 1] = ")"
        THEN [ ok |-> TRUE, end |-> e + 1, groups |-> <<>> ]
        ELSE NoMatch

RECURSIVE DeclarationRegexFrom(_, _, _)
DeclarationRegexFrom(text, p, cls) ==
    IF p > Len(text) THEN 0
    ELSE IF DeclarationRegexAt(text, p, cls).ok THEN p
    ELSE DeclarationRegexFrom(text, p + 1, cls)

\* declaration_regex.search(content)
DeclarationRegexSearch(text, cls) == DeclarationRegexFrom(text, 1, cls)

\* Line 178.
NewDeclaration(cls) ==
    << " ", " ", "explicit", " " >> \o cls \o <<"(">> \o OptionsParameter \o << ")", ";" >>

\* Line 179: declaration_regex.sub(new_declaration, content, count=1)
UpdatedHeader(text, cls) ==
    LET p == DeclarationRegexSearch(text, cls)
    IN  SubSeq(text, 1, p - 1) \o NewDeclaration(cls)
            \o SubSeq(text, DeclarationRegexAt(text, p, cls).end, Len(text))

(***************************************************************************)
(* Paths.  A path is [dir, stem, suffix]: the directory's components, and  *)
(* the file name split as Path.stem and Path.suffix split it.              *)
(***************************************************************************)
Parent(dir) == SubSeq(dir, 1, Len(dir) - 1)

IsUnder(dir, root) == Len(root) <= Len(dir) /\ SubSeq(dir, 1, Len(root)) = root

\* The suffixes of the model's files that match the glob's `.h*`.
HeaderSuffixes == { ".h", ".hpp" }

\* The stems of the model's files that match rglob's `main*`.
MainStems == { "main", "main_node" }

\* A set of paths as a list, in the order the file system yields them.
RECURSIVE Listing(_)
Listing(paths) ==
    IF paths = {} THEN <<>>
    ELSE LET first == CHOOSE q \in paths : TRUE
         IN  << first >> \o Listing(paths \ { first })

\* dir.glob(f"{stem}.h*")
GlobHeaders(files, dir, stem) ==
    Listing({ q \in DOMAIN files :
                q.dir = dir /\ q.stem = stem /\ q.suffix \in HeaderSuffixes })

\* Path.exists() of a directory: it holds a file, at any depth.
DirExists(files, dir) == \E q \in DOMAIN files : IsUnder(q.dir, dir)

\* Lines 145-158.
CandidateHeaders(files, cpp) ==
    LET src_dir == cpp.dir
        package_dir == Parent(src_dir)
        include_dir == package_dir \o << "include" >>
        nested_include_dir == include_dir \o << package_dir[Len(package_dir)] >>
    IN  GlobHeaders(files, src_dir, cpp.stem)
        \o (IF DirExists(files, include_dir)
            THEN GlobHeaders(files, include_dir, cpp.stem)
                 \o (IF DirExists(files, nested_include_dir)
                     THEN GlobHeaders(files, nested_include_dir, cpp.stem)
                     ELSE <<>>)
            ELSE <<>>)

\* How update_header_constructor_declaration ends (lines 160-176, 181).
HeaderOutcome(files, cpp, cls) ==
    LET headers == CandidateHeaders(files, cpp)
    IN  IF headers = <<>> THEN "header_not_found"
        ELSE IF ~files[headers[1]].utf8 THEN "skip_non_utf8_header"
        ELSE IF DeclarationRegexSearch(files[headers[1]].text, cls) = 0
        THEN "decl_not_found"
        ELSE "header_updated"

\* Lines 87-89: list(package_dir.rglob("main*.cpp")) + [cpp_file]
MainCandidates(files, cpp) ==
    Listing({ q \in DOMAIN files :
                /\ IsUnder(q.dir, Parent(cpp.dir))
                /\ q.stem \in MainStems
                /\ q.suffix = ".cpp" })
    \o << cpp >>

(***************************************************************************)
(* State.                                                                  *)
(***************************************************************************)
VARIABLES
    \* find_enclosing_namespace, line by line
    content, class_name, lines, constructor_line_num, i,
    namespace_stack, brace_depth, depth_to_ns, ns_pc, ns_result,
    \* find_ros2_node_constructors, file by file
    tree, scanned, matches,
    \* apply_composable_conversion: the files, the confirmed candidates, the
    \* position in the loop, the call-site files still to visit, the run, the
    \* files as they were when the run began, and the messages printed
    fs, confirmed, pc, cand, main_candidates, run, snap, stdout

nsVars == << content, class_name, lines, constructor_line_num, i,
             namespace_stack, brace_depth, depth_to_ns, ns_pc, ns_result >>

discVars == << tree, scanned, matches >>

convVars == << fs, confirmed, pc, cand, main_candidates, run, snap, stdout >>

vars == << nsVars, discVars, convVars >>

\* The parts of the program a specification does not run.
NsIdle ==
    /\ content = <<>>
    /\ class_name = <<>>
    /\ lines = <<>>
    /\ constructor_line_num = 0
    /\ i = 0
    /\ namespace_stack = <<>>
    /\ brace_depth = 0
    /\ depth_to_ns = <<>>
    /\ ns_pc = "idle"
    /\ ns_result = <<>>

DiscIdle ==
    /\ tree = <<>>
    /\ scanned = 0
    /\ matches = <<>>

ConvIdle ==
    /\ fs = <<>>
    /\ confirmed = <<>>
    /\ pc = "idle"
    /\ cand = 0
    /\ main_candidates = <<>>
    /\ run = 0
    /\ snap = <<>>
    /\ stdout = <<>>

(***************************************************************************)
(* The resolver's inputs: files built of these lines.                      *)
(***************************************************************************)
NsOpen(name) == << "namespace", " ", name, " ", "{" >>

NsKeyword(name) == << "namespace", " ", name >>

CtorHead(cls) == cls \o <<"::">> \o cls \o << "(", ")" >>

NsLineTemplates ==
    { NsOpen("a"),
      << " ", " " >> \o NsOpen("b"),
      NsKeyword("a"),
      NsKeyword("b"),
      << "{" >>,
      << "}" >>,
      NsOpen("a") \o << " " >> \o NsOpen("b"),
      << "namespace", " ", "{" >>,
      << "void", " ", "f", "(", ")", " ", "{" >> }

NsAnchorTemplates ==
    { CtorHead(<<"Foo">>) \o << " ", "{" >>,
      CtorHead(<<"Foo">>) }

RECURSIVE SeqsUpTo(_, _)
SeqsUpTo(S, n) ==
    IF n = 0 THEN { <<>> }
    ELSE LET shorter == SeqsUpTo(S, n - 1)
         IN  shorter \cup { Append(q, e) : q \in { r \in shorter : Len(r) = n - 1 }, e \in S }

\* Files: up to MaxLines lines, then (possibly) the constructor line.
NsInputs ==
    { Join(pre \o tail, <<"\n">>) :
        pre \in SeqsUpTo(NsLineTemplates, MaxLines),
        tail \in { <<>> } \cup { <<t>> : t \in NsAnchorTemplates } }

NsInit ==
    /\ content \in NsInputs
    /\ class_name = <<"Foo">>
    /\ lines = <<>>
    /\ constructor_line_num = 0
    /\ i = 0
    /\ namespace_stack = <<>>
    /\ brace_depth = 0
    /\ depth_to_ns = <<>>
    /\ ns_pc = "locate"
    /\ ns_result = <<>>
    /\ DiscIdle
    /\ ConvIdle

\* Lines 47-59: split, locate the constructor line, return "" without one.
NsLocate ==
    /\ ns_pc = "locate"
    /\ lines' = SplitLines(content)
    /\ constructor_line_num' = ConstructorLineNum(lines', class_name)
    /\ IF constructor_line_num' = 0
       THEN ns_pc' = "done" /\ ns_result' = <<>>
       ELSE ns_pc' = "walk" /\ ns_result' = ns_result
    /\ i' = 1
    /\ UNCHANGED << content, class_name, namespace_stack, brace_depth, depth_to_ns >>
    /\ UNCHANGED << discVars, convVars >>

\* Lines 62-81: one iteration of the walk.
NsScanLine ==
    /\ ns_pc = "walk"
    /\ i <= constructor_line_num
    /\ LET st == ScanLine([ namespace_stack |-> namespace_stack,
                            brace_depth |-> brace_depth,
                            depth_to_ns |-> depth_to_ns ],
                          lines, i, constructor_line_num)
       IN  /\ namespace_stack' = st.namespace_stack
           /\ brace_depth' = st.brace_depth
           /\ depth_to_ns' = st.depth_to_ns
    /\ i' = i + 1
    /\ UNCHANGED << content, class_name, lines, constructor_line_num, ns_pc, ns_result >>
    /\ UNCHANGED << discVars, convVars >>

\* Line 83.
NsReturn ==
    /\ ns_pc = "walk"
    /\ i > constructor_line_num
    /\ ns_result' = NamespacePrefix(namespace_stack)
    /\ ns_pc' = "done"
    /\ UNCHANGED << content, class_name, lines, constructor_line_num, i,
                    namespace_stack, brace_depth, depth_to_ns >>
    /\ UNCHANGED << discVars, convVars >>

NsNext == NsLocate \/ NsScanLine \/ NsReturn

SpecNS == NsInit /\ [][NsNext]_vars

(***************************************************************************)
(* Properties of the resolver (SpecNS).                                    *)
(***************************************************************************)
\* The three layouts of `namespace a { namespace b {` before the constructor.
TwoNamespaceLayouts ==
    { Join(pre \o <<t>>, <<"\n">>) :
        pre \in { << NsOpen("a") \o << " " >> \o NsOpen("b") >>,
                  << NsOpen("a"), << " ", " " >> \o NsOpen("b") >>,
                  << NsKeyword("a"), << "{" >>, NsKeyword("b"), << "{" >> >> },
        t \in NsAnchorTemplates }

\* C2: for a constructor inside namespace a then namespace b, in each of the
\* three layouts of the two openings, the resolver returns a::b::.
C2_ResolvesNestedNamespaces ==
    (ns_pc = "done" /\ content \in TwoNamespaceLayouts)
        => ns_result = << "a", "::", "b", "::" >>

\* The scopes open after the chunks s[p..]: brace matching over the text, a
\* named namespace's brace pushing its name and any other brace pushing <<>>.
RECURSIVE OpenScopes(_, _, _)
OpenScopes(s, p, scopes) ==
    IF p > Len(s) THEN scopes
    ELSE IF s[p] = "}"
    THEN OpenScopes(s, p + 1,
                    IF scopes = <<>> THEN scopes
                    ELSE SubSeq(scopes, 1, Len(scopes) - 1))
    ELSE IF s[p] = "{" THEN OpenScopes(s, p + 1, Append(scopes, <<>>))
    ELSE IF /\ s[p] = "namespace"
            /\ ~IsWord(At(s, p - 1))
            /\ IsSpace(At(s, p + 1))
            /\ IsWord(At(s, SkipSpaces(s, p + 1)))
            /\ At(s, SkipSpaces(s, SkipWord(s, SkipSpaces(s, p + 1)))) = "{"
    THEN LET q == SkipSpaces(s, p + 1)
             r == SkipWord(s, q)
         IN  OpenScopes(s, SkipSpaces(s, r) + 1, Append(scopes, SubSeq(s, q, r - 1)))
    ELSE OpenScopes(s, p + 1, scopes)

\* The named namespaces open at the end of the constructor line.
OpenNamespaces ==
    LET upto == Join(SubSeq(lines, 1, constructor_line_num), <<"\n">>)
    IN  SelectSeq(OpenScopes(upto, 1, <<>>), LAMBDA sc : sc # <<>>)

\* The text up to the constructor line is well formed: every `namespace x` is
\* followed by its opening brace and no closing brace lacks an opening one.
RECURSIVE BracesBalanced(_, _, _)
BracesBalanced(s, p, depth) ==
    IF p > Len(s) THEN TRUE
    ELSE IF s[p] = "}" THEN depth > 0 /\ BracesBalanced(s, p + 1, depth - 1)
    ELSE IF s[p] = "{" THEN BracesBalanced(s, p + 1, depth + 1)
    ELSE BracesBalanced(s, p + 1, depth)

WellFormedPrefix ==
    LET upto == Join(SubSeq(lines, 1, constructor_line_num), <<"\n">>)
    IN  /\ BracesBalanced(upto, 1, 0)
        /\ \A p \in 1..Len(upto) :
              (upto[p] = "namespace" /\ IsWord(At(upto, SkipSpaces(upto, p + 1))))
                  => At(upto, SkipSpaces(upto, SkipWord(upto, SkipSpaces(upto, p + 1)))) = "{"

\* C3: the namespace stack holds only namespaces whose block is still open: a
\* constructor defined after a namespace block was closed is not attributed to
\* that namespace.
C3_ClosedNamespaceNotAttributed ==
    (ns_pc = "done" /\ constructor_line_num > 0 /\ WellFormedPrefix)
        => \A k \in 1..Len(namespace_stack) :
              \E m \in 1..Len(OpenNamespaces) : OpenNamespaces[m] = namespace_stack[k]

\* C4: when the running brace depth drops below zero during the walk, the
\* resolver returns the empty string.
C4_NegativeDepthAbandons ==
    ( /\ ns_pc = "done"
      /\ \E k \in 1..constructor_line_num :
            ScanPrefix(lines, k, constructor_line_num).brace_depth < 0 )
        => ns_result = <<>>

(***************************************************************************)
(* The discoverer over a tree of .cpp files (SpecDisc).                    *)
(***************************************************************************)
Quoted(w) == << "\"" \o w \o "\"" >>

Definition(cls, params, init) ==
    cls \o <<"::">> \o cls \o <<"(">> \o params \o << ")", " ", ":", " " >>
        \o init \o << " ", "{", "}" >>

DiscTemplates ==
    { Definition(<<"Foo">>, <<>>, << "Node", "(" >> \o Quoted("foo") \o << ")" >>),
      Definition(<<"Bar">>, << "int", " ", "x" >>,
                 << "Lifecycle", "Node", "(" >> \o Quoted("bar") \o << ")" >>),
      Definition(<<"Foo">>, << "int", " ", "x" >>, << "Foo", "(", ")" >>),
      Definition(<<"Bar">>, <<>>,
                 << "public", " ", "Node", "(" >> \o Quoted("bar") \o << ")" >>),
      Definition(<< "My", "Foo" >>, <<>>,
                 << "rclcpp", "::", "Node", "(" >> \o Quoted("foo") \o << ")" >>),
      << "void", " ", "Foo", "::", "f", "(", ")", " ", "{", "}" >> }

DiscTexts == { Join(defs, <<"\n">>) : defs \in SeqsUpTo(DiscTemplates, MaxDefs) }

DiscPath(k) == << "ws", "pkg", "src", "file" \o ToString(k) \o ".cpp" >>

\* Trees of up to MaxFiles .cpp files, in the order rglob yields them; utf8 is
\* whether read_text decodes the file.
DiscTrees ==
    UNION { { [ k \in 1..n |-> [ path |-> DiscPath(k), text |-> txt[k], utf8 |-> dec[k] ] ] :
                txt \in [ 1..n -> DiscTexts ], dec \in [ 1..n -> BOOLEAN ] } :
            n \in 1..MaxFiles }

DiscInit ==
    /\ tree \in DiscTrees
    /\ scanned = 0
    /\ matches = <<>>
    /\ NsIdle
    /\ ConvIdle

\* Lines 14-18: a file that does not decode is skipped.
DiscSkipFile ==
    /\ scanned < Len(tree)
    /\ ~tree[scanned + 1].utf8
    /\ scanned' = scanned + 1
    /\ UNCHANGED << tree, matches, nsVars, convVars >>

\* Lines 14-22: every match of the pattern in the next file is appended.
DiscScanFile ==
    /\ scanned < Len(tree)
    /\ tree[scanned + 1].utf8
    /\ LET file == tree[scanned + 1]
           found == FindIterClasses(file.text, 1, DelegateBackref)
       IN  matches' = matches \o
               [ k \in 1..Len(found) |-> [ class_name |-> found[k], path |-> file.path ] ]
    /\ scanned' = scanned + 1
    /\ UNCHANGED << tree, nsVars, convVars >>

DiscNext == DiscSkipFile \/ DiscScanFile

SpecDisc == DiscInit /\ [][DiscNext]_vars

\* The candidates the two recognized shapes give: those of the files that
\* decode, the delegating shape referring back to its own class (group 2).
RECURSIVE ExpectedCandidates(_)
ExpectedCandidates(files) ==
    IF files = <<>> THEN <<>>
    ELSE LET file == Head(files)
             found == IF file.utf8 THEN FindIterClasses(file.text, 1, 2) ELSE <<>>
         IN  [ k \in 1..Len(found) |-> [ class_name |-> found[k], path |-> file.path ] ]
                 \o ExpectedCandidates(Tail(files))

\* C5: the discoverer returns one (class name, path) pair for every match of
\* either shape: C::C(..) : [public] Node|LifecycleNode, and the delegating
\* C::C(..) : C(..).
C5_EveryShapeDiscovered ==
    scanned = Len(tree) => matches = ExpectedCandidates(tree)

(***************************************************************************)
(* apply_composable_conversion over a package (Spec).                      *)
(***************************************************************************)
SrcDir == << "ws", "pkg", "src" >>

ImplPath == [ dir |-> SrcDir, stem |-> "foo", suffix |-> ".cpp" ]

MainPath == [ dir |-> SrcDir, stem |-> "main", suffix |-> ".cpp" ]

HeaderDirs == { SrcDir, << "ws", "pkg", "include" >>, << "ws", "pkg", "include", "pkg" >> }

HeaderPath(dir) == [ dir |-> dir, stem |-> "foo", suffix |-> ".hpp" ]

Decodable(text) == [ text |-> text, utf8 |-> TRUE ]

\* A file read_text raises UnicodeDecodeError on.
Undecodable == [ text |-> <<>>, utf8 |-> FALSE ]

\* The definitions of class Foo an implementation file may hold: none, a
\* constructor on Node, a constructor that already takes the options.
FooDefinitions ==
    { <<>>,
      << Definition(<<"Foo">>, << "int", " ", "x" >>,
                    << "Node", "(" >> \o Quoted("foo") \o << ")" >>) >>,
      << NewSignature(<<"Foo">>) \o << " ", ":", " ", "Node", "(" >> \o Quoted("foo")
           \o << ",", " ", "options", ")", " ", "{", "}" >> >> }

\* Those of class Bar: none, a constructor on LifecycleNode.
BarDefinitions ==
    { <<>>,
      << Definition(<<"Bar">>, <<>>,
                    << "Lifecycle", "Node", "(" >> \o Quoted("bar") \o << ")" >>) >> }

InNamespace(name, text) == NsOpen(name) \o << "\n" >> \o text \o << "\n", "}" >>

ImplTexts ==
    LET bodies == { Join(foo \o bar, <<"\n">>) :
                      foo \in FooDefinitions, bar \in BarDefinitions }
    IN  bodies \cup { InNamespace("demo", b) : b \in bodies }

CallSite(type, args) ==
    << "auto", " ", "n", " ", "=", " ", "std", "::", "make_shared", "<" >> \o type
        \o << ">", "(" >> \o args \o << ")", ";" >>

MainTexts ==
    { CallSite(<<"Foo">>, <<>>),
      CallSite(<< "demo", "::", "Foo" >>, <<>>) \o << "\n" >> \o CallSite(<<"Bar">>, <<>>),
      CallSite(<< "My", "Foo" >>, <<>>),
      CallSite(<<"Foo">>, << "42" >>) }

ClassBody(decl) ==
    << "class", " ", "Foo", " ", "{", "\n", " ", " " >> \o decl \o << "\n", "}", ";" >>

HeaderTexts ==
    { ClassBody(<< "Foo", "(", "int", " ", "x", ")", ";" >>),
      ClassBody(<< "void", " ", "f", "(", ")", ";" >>) }

\* The packages: the implementation file, possibly an entry-point file, and a
\* header in any of the three places searched (the same text in each).
Packages ==
    { (ImplPath :> impl)
        @@ [ q \in { MainPath : x \in mains } |-> CHOOSE x \in mains : TRUE ]
        @@ [ q \in { HeaderPath(d) : d \in dirs } |-> header ] :
        impl \in { Decodable(t) : t \in ImplTexts } \cup { Undecodable },
        mains \in { {} } \cup { { Decodable(t) } : t \in MainTexts } \cup { { Undecodable } },
        dirs \in { ds \in SUBSET HeaderDirs : Cardinality(ds) # 2 },
        header \in { Decodable(t) : t \in HeaderTexts } \cup { Undecodable } }

Candidates == { [ class_name |-> c, path |-> ImplPath ] : c \in { <<"Foo">>, <<"Bar">> } }

Init ==
    /\ fs \in Packages
    /\ confirmed \in SeqsUpTo(Candidates, MaxCands) \ { <<>> }
    /\ pc = "node"
    /\ cand = 1
    /\ main_candidates = <<>>
    /\ run = 1
    /\ snap = fs
    /\ stdout = <<>>
    /\ NsIdle
    /\ DiscIdle

\* The loop of apply_composable_conversion moves to the next candidate (line 185).
NextCandidate ==
    [ pc |-> IF cand < Len(confirmed) THEN "node" ELSE "done", cand |-> cand + 1 ]

\* The call sites first and the header last, but for a constructor rewrite that
\* fails: the run stops there.
ControlStopOnFailure(step, outcome) ==
    IF step = "node"
    THEN (IF outcome = "updated" THEN [ pc |-> "main", cand |-> cand ]
          ELSE [ pc |-> "done", cand |-> cand ])
    ELSE IF step = "main" THEN [ pc |-> "header", cand |-> cand ]
    ELSE NextCandidate

\* The header before the call sites.
ControlHeaderFirst(step, outcome) ==
    IF step = "node" THEN [ pc |-> "header", cand |-> cand ]
    ELSE IF step = "header" /\ main_candidates # <<>> THEN [ pc |-> "main", cand |-> cand ]
    ELSE NextCandidate

\* Where control goes after a step of the current candidate (lines 124-126,
\* 142, 186-187): a successful constructor rewrite chains into the call sites,
\* any other outcome returns to the loop, whose next call is the header step,
\* and the header step closes the candidate.
Control(step, outcome) ==
    IF step = "node"
    THEN [ pc |-> IF outcome = "updated" THEN "main" ELSE "header", cand |-> cand ]
    ELSE IF step = "main" THEN [ pc |-> "header", cand |-> cand ]
    ELSE NextCandidate

Say(msg, path) == Append(stdout, [ msg |-> msg, cand |-> cand, path |-> path ])

\* update_node_constructor up to its call of update_main_constructors
\* (lines 108-142) and the candidate list of update_main_constructors (87-89).
UpdateNodeConstructor ==
    /\ pc = "node"
    /\ LET cls == confirmed[cand].class_name
           path == confirmed[cand].path
           outcome == NodeOutcome(fs[path], cls)
       IN  /\ fs' = IF outcome = "updated"
                    THEN [ fs EXCEPT ![path] = Decodable(UpdatedContent(fs[path].text, cls)) ]
                    ELSE fs
           /\ stdout' = Say(outcome, path)
           /\ main_candidates' = IF outcome = "updated"
                                 THEN MainCandidates(fs', path) ELSE <<>>
           /\ pc' = Control("node", outcome).pc
           /\ cand' = Control("node", outcome).cand
    /\ UNCHANGED << confirmed, run, snap, nsVars, discVars >>

\* One iteration of the loop of update_main_constructors (lines 95-106).
UpdateMainConstructors ==
    /\ pc = "main"
    /\ LET cls == confirmed[cand].class_name
           path == Head(main_candidates)
           hit == fs[path].utf8 /\ ConstructorCallSearch(fs[path].text, cls)
       IN  /\ fs' = IF hit
                    THEN [ fs EXCEPT ![path] =
                             Decodable(ConstructorCallSub(fs[path].text, 1, cls)) ]
                    ELSE fs
           /\ stdout' = IF hit THEN Say("call_updated", path) ELSE stdout
    /\ main_candidates' = Tail(main_candidates)
    /\ pc' = IF main_candidates' = <<>> THEN Control("main", "").pc ELSE "main"
    /\ cand' = IF main_candidates' = <<>> THEN Control("main", "").cand ELSE cand
    /\ UNCHANGED << confirmed, run, snap, nsVars, discVars >>

\* update_header_constructor_declaration (lines 144-182) and the step of the
\* loop of apply_composable_conversion to the next candidate (line 185).
UpdateHeaderConstructorDeclaration ==
    /\ pc = "header"
    /\ LET cls == confirmed[cand].class_name
           path == confirmed[cand].path
           outcome == HeaderOutcome(fs, path, cls)
           headers == CandidateHeaders(fs, path)
       IN  /\ fs' = IF outcome = "header_updated"
                    THEN [ fs EXCEPT ![headers[1]] =
                             Decodable(UpdatedHeader(fs[headers[1]].text, cls)) ]
                    ELSE fs
           /\ stdout' = Say(outcome, IF headers = <<>> THEN path ELSE headers[1])
           /\ pc' = Control("header", outcome).pc
           /\ cand' = Control("header", outcome).cand
    /\ UNCHANGED << confirmed, main_candidates, run, snap, nsVars, discVars >>

\* The program is run again on the files it left, with the same candidates.
RunAgain ==
    /\ pc = "done"
    /\ run < MaxRuns
    /\ run' = run + 1
    /\ snap' = fs
    /\ cand' = 1
    /\ pc' = "node"
    /\ stdout' = <<>>
    /\ UNCHANGED << fs, confirmed, main_candidates, nsVars, discVars >>

Next ==
    \/ UpdateNodeConstructor
    \/ UpdateMainConstructors
    \/ UpdateHeaderConstructorDeclaration
    \/ RunAgain

Spec == Init /\ [][Next]_vars

(***************************************************************************)
(* Properties of the conversion (Spec).                                    *)
(***************************************************************************)
\* C1: a second run of the conversion on the files the first run produced
\* leaves every file with the content it had after the first run.
C1_SecondRunChangesNothing ==
    (pc = "done" /\ run = 2) => fs = snap

Printed(msgs, k) ==
    { n \in 1..Len(stdout) : stdout[n].cand = k /\ stdout[n].msg \in msgs }

\* C6 as stated: for each candidate the header is written before any
\* entry-point file is.
C6_HeaderBeforeCallSites ==
    \A n \in 1..Len(stdout) :
        stdout[n].msg = "call_updated"
            => \E m \in Printed({ "header_updated" }, stdout[n].cand) : m < n

\* C6 as amended: for each candidate the implementation file is written first,
\* then the entry-point files, then the header.
C6_CallSitesBeforeHeader ==
    \A k \in 1..Len(confirmed) :
        /\ \A n \in Printed({ "call_updated" }, k) :
              \E m \in Printed({ "updated" }, k) : m < n
        /\ \A n \in Printed({ "header_updated" }, k) :
              \A m \in Printed({ "updated", "call_updated" }, k) : m < n

\* A candidate for which all three files were written.
C6_Witness ==
    \E k \in 1..Len(confirmed) :
        /\ Printed({ "updated" }, k) # {}
        /\ Printed({ "call_updated" }, k) # {}
        /\ Printed({ "header_updated" }, k) # {}

\* No earlier confirmed candidate is the same class in the same file.
FirstOfItsClass(k) ==
    \A m \in 1..(k - 1) : confirmed[m] # confirmed[k]

\* C7: whether a candidate's constructor is rewritten does not depend on the
\* candidates converted before it: it ends as it would on the files the run
\* began with.
C7_CandidatesIndependent ==
    (pc = "node" /\ run = 1 /\ FirstOfItsClass(cand))
        => NodeOutcome(fs[confirmed[cand].path], confirmed[cand].class_name)
             = NodeOutcome(snap[confirmed[cand].path], confirmed[cand].class_name)

\* The initializer `: Base(args)` with the options value as last argument.
WithOptionsLast(init) ==
    LET q == FirstOf(init, 1, {"("})
        r == FirstOf(init, q + 1, {")"})
    IN  SubSeq(init, 1, r - 1)
            \o (IF r - 1 > q THEN << ",", " " >> ELSE <<>>)
            \o << "options" >> \o SubSeq(init, r, Len(init))

\* The name of the initializer called in `: Base(args)`.
InitializerBase(init) ==
    LET c == FirstOf(init, 1, {":"})
        q == FirstOf(init, 1, {"("})
    IN  Strip(SubSeq(init, c + 1, q - 1))

\* C8: a successful rewrite of C::C(params) : Base(args), Base being Node or
\* LifecycleNode, leaves C::C(<the options parameter>) : Base(args, options).
C8_OptionsForwardedToBase ==
    [][ (pc = "node" /\ pc' = "main")
          => LET cls == confirmed[cand].class_name
                 path == confirmed[cand].path
                 old == fs[path].text
                 init == ConstructorRegexAt(old, ConstructorRegexSearch(old, cls), cls).groups[2]
             IN  InitializerBase(init) \in { << "Node" >>, << "Lifecycle", "Node" >> }
                   => Contains(fs'[path].text, NewSignature(cls) \o WithOptionsLast(init))
      ]_vars

\* The text with exactly the zero-argument shared-handle constructions of
\* class cls, qualified or not, given the options value.
RECURSIVE OwnCallsRewritten(_, _, _)
OwnCallsRewritten(text, p, cls) ==
    IF p > Len(text) THEN <<>>
    ELSE LET m == ConstructorCallAt(text, p, cls)
             type == m.groups[1]
         IN  IF m.ok /\ (type = cls \/ At(type, Len(type) - Len(cls)) = "::")
             THEN << "std", "::", "make_shared", "<" >> \o type
                      \o << ">", "(" >> \o OptionsValue \o << ")" >>
                      \o OwnCallsRewritten(text, m.end, cls)
             ELSE << text[p] >> \o OwnCallsRewritten(text, p + 1, cls)

\* C9: the call-site step rewrites exactly the zero-argument constructions of
\* the given class and leaves every other construction as it was.
C9_OnlyOwnCallSitesRewritten ==
    [][ (pc = "main" /\ fs[Head(main_candidates)].utf8)
          => fs'[Head(main_candidates)].text
               = OwnCallsRewritten(fs[Head(main_candidates)].text, 1,
                                   confirmed[cand].class_name)
      ]_vars

NodeMessages == { "skip_non_utf8", "already", "ctor_not_found", "updated" }

HeaderMessages ==
    { "header_not_found", "skip_non_utf8_header", "decl_not_found", "header_updated" }

\* The files a message reports as written.
Written ==
    { stdout[n].path : n \in { m \in 1..Len(stdout) :
          stdout[m].msg \in { "updated", "call_updated", "header_updated" } } }

\* C10: a step that ends in a decode failure, not-found or already-converted
\* leaves its file unchanged, undoes no other step's write and does not stop
\* the run: only files reported written differ from what the run began with,
\* a constructor rewrite that did not succeed is followed by no call-site
\* write, a converted implementation file keeps its conversion when no header
\* is found, and at the end the constructor step and the header step have run
\* once for every confirmed candidate.
C10_FailuresAreLocal ==
    /\ \A q \in DOMAIN fs : q \notin Written => fs[q] = snap[q]
    /\ \A k \in 1..Len(confirmed) :
          /\ Printed({ "updated" }, k) = {} => Printed({ "call_updated" }, k) = {}
          /\ (Printed({ "updated" }, k) # {} /\ Printed({ "header_not_found" }, k) # {})
                => Contains(fs[confirmed[k].path].text,
                            NewSignature(confirmed[k].class_name))
    /\ pc = "done" =>
          \A k \in 1..Len(confirmed) :
              /\ Cardinality(Printed(NodeMessages, k)) = 1
              /\ Cardinality(Printed(HeaderMessages, k)) = 1

\* A run that ended after a first candidate whose constructor was not found and
\* whose header was not found, and a later candidate that was converted.
C10_Witness ==
    /\ pc = "done"
    /\ \E k \in 1..Len(confirmed) :
          /\ Printed({ "ctor_not_found", "already", "skip_non_utf8" }, k) # {}
          /\ Printed(HeaderMessages \ { "header_updated" }, k) # {}
          /\ \E m \in (k + 1)..Len(confirmed) :
                /\ Printed({ "updated" }, m) # {}
                /\ Printed({ "header_not_found" }, m) # {}

====
